---------------------------- MODULE Spec2Model ----------------------------
(***************************************************************************)
(* Model of psl_proof/utils/submission.py: the timestamp normalizer        *)
(* parse_iso_datetime and the three request flows                          *)
(* get_submission_historical_data, evaluate_submission and submit_data.    *)
(*                                                                         *)
(* Strings that the code inspects character by character (timestamps) are  *)
(* sequences of one-character strings.  Python values are records tagged   *)
(* with their type in the field t, so that a value fetched from a JSON     *)
(* body is passed through untyped, as dict.get does.                       *)
(***************************************************************************)
EXTENDS Integers, Sequences, FiniteSets, TLC

VARIABLES
    fn,            \* the function being invoked
    pc,            \* where the invocation stands
    posts,         \* HTTP POSTs issued by the current invocation
    response,      \* what the transport delivered for the POST
    outcome,       \* the invocation's final outcome
    inp,           \* parse_iso_datetime: the parts the argument was written from
    date_string,   \* parse_iso_datetime: the argument
    any_frac       \* the interpreter's fromisoformat takes any fraction length (3.11+)

vars == <<fn, pc, posts, response, outcome, inp, date_string, any_frac>>

-----------------------------------------------------------------------------
(* Bounds *)

\* longest fractional-seconds run written into a timestamp
MaxFracLen == 9
\* most entries in chatHistories, in chats and in chatSummaries
MaxList == 2

-----------------------------------------------------------------------------
(* Characters and numbers *)

DigitChars == <<"0", "1", "2", "3", "4", "5", "6", "7", "8", "9">>

Digit == {DigitChars[i] : i \in 1..10}

DigitVal(c) == CHOOSE n \in 0..9 : DigitChars[n + 1] = c

Min(a, b) == IF a < b THEN a ELSE b

IsDigits(s) == \A i \in 1..Len(s) : s[i] \in Digit

RECURSIVE Num(_)
Num(s) == IF Len(s) = 0 THEN 0
          ELSE 10 * Num(SubSeq(s, 1, Len(s) - 1)) + DigitVal(s[Len(s)])

\* n written in decimal, zero-filled to w digits
RECURSIVE Fmt(_, _)
Fmt(n, w) == IF w = 0 THEN <<>>
             ELSE Append(Fmt(n \div 10, w - 1), DigitChars[(n % 10) + 1])

\* str[:n]
Take(s, n) == SubSeq(s, 1, Min(n, Len(s)))

\* str[n+1:]
Drop(s, n) == SubSeq(s, n + 1, Len(s))

\* str.ljust(w, c)
RECURSIVE LJust(_, _, _)
LJust(s, w, c) == IF Len(s) >= w THEN s ELSE LJust(Append(s, c), w, c)

EndsWith(s, c) == Len(s) > 0 /\ s[Len(s)] = c

-----------------------------------------------------------------------------
(* Python values *)

PyNone == [t |-> "None"]
PyBool(b) == [t |-> "bool", v |-> b]
PyInt(n) == [t |-> "int", v |-> n]
PyFloat(tenths) == [t |-> "float", v |-> tenths]
PyStr(s) == [t |-> "str", v |-> s]
PyList(s) == [t |-> "list", v |-> s]
PyDict(f) == [t |-> "dict", v |-> f]

\* datetime.datetime; a naive value has aware = FALSE and utcoffset = 0
DateTime(y, mo, d, h, mi, s, us, aw, off) ==
    [t |-> "datetime", year |-> y, month |-> mo, day |-> d, hour |-> h,
     minute |-> mi, second |-> s, microsecond |-> us, aware |-> aw,
     utcoffset |-> off]

IsLeap(y) == y % 4 = 0 /\ (y % 100 # 0 \/ y % 400 = 0)

DaysInMonth(y, m) ==
    IF m = 2 THEN (IF IsLeap(y) THEN 29 ELSE 28)
    ELSE IF m \in {4, 6, 9, 11} THEN 30 ELSE 31

RECURSIVE DaysBeforeMonth(_, _)
DaysBeforeMonth(y, m) ==
    IF m <= 1 THEN 0 ELSE DaysBeforeMonth(y, m - 1) + DaysInMonth(y, m - 1)

\* datetime.toordinal
Ordinal(y, m, d) ==
    LET p == y - 1
    IN  p * 365 + (p \div 4) - (p \div 100) + (p \div 400)
        + DaysBeforeMonth(y, m) + d

\* The point on the UTC time line of an aware datetime (of a naive one read
\* as UTC): <<minutes, seconds, microseconds>>.
Instant(dt) ==
    << Ordinal(dt.year, dt.month, dt.day) * 1440 + dt.hour * 60 + dt.minute
         - dt.utcoffset,
       dt.second, dt.microsecond >>

-----------------------------------------------------------------------------
(* datetime.fromisoformat, as called at the end of parse_iso_datetime:     *)
(* YYYY-MM-DD[*HH[:MM[:SS[.f...]]][+HH:MM]].  A result is                  *)
(* [ok |-> TRUE, dt |-> datetime] or [ok |-> FALSE] (ValueError).          *)

IsoFail == [ok |-> FALSE, dt |-> PyNone]

DateOk(s) ==
    /\ Len(s) = 10
    /\ IsDigits(SubSeq(s, 1, 4)) /\ s[5] = "-"
    /\ IsDigits(SubSeq(s, 6, 7)) /\ s[8] = "-"
    /\ IsDigits(SubSeq(s, 9, 10))
    /\ Num(SubSeq(s, 1, 4)) >= 1
    /\ Num(SubSeq(s, 6, 7)) \in 1..12
    /\ Num(SubSeq(s, 9, 10)) \in
           1..DaysInMonth(Num(SubSeq(s, 1, 4)), Num(SubSeq(s, 6, 7)))

\* the fraction lengths the interpreter's fromisoformat takes
FracLenOk(n, lenient) == IF lenient THEN n >= 1 ELSE n \in {3, 6}

\* HH[:MM[:SS[.f...]]]
ClockOk(c, lenient) ==
    /\ Len(c) >= 2
    /\ IsDigits(SubSeq(c, 1, 2)) /\ Num(SubSeq(c, 1, 2)) \in 0..23
    /\ Len(c) > 2 =>
         /\ Len(c) >= 5 /\ c[3] = ":"
         /\ IsDigits(SubSeq(c, 4, 5)) /\ Num(SubSeq(c, 4, 5)) \in 0..59
    /\ Len(c) > 5 =>
         /\ Len(c) >= 8 /\ c[6] = ":"
         /\ IsDigits(SubSeq(c, 7, 8)) /\ Num(SubSeq(c, 7, 8)) \in 0..59
    /\ Len(c) > 8 =>
         /\ c[9] = "."
         /\ IsDigits(Drop(c, 9))
         /\ FracLenOk(Len(c) - 9, lenient)

ClockField(c, first) == IF Len(c) >= first + 1 THEN Num(SubSeq(c, first, first + 1)) ELSE 0

\* the fraction in microseconds: digits past the sixth are dropped
Micro(frac) == Num(LJust(Take(frac, 6), 6, "0"))

\* [+-]HH:MM
ZoneOk(z) ==
    /\ Len(z) = 6
    /\ z[1] \in {"+", "-"}
    /\ IsDigits(SubSeq(z, 2, 3)) /\ z[4] = ":" /\ IsDigits(SubSeq(z, 5, 6))
    /\ Num(SubSeq(z, 2, 3)) * 60 + Num(SubSeq(z, 5, 6)) < 1440

ZoneMinutes(z) ==
    (IF z[1] = "-" THEN -1 ELSE 1) * (Num(SubSeq(z, 2, 3)) * 60 + Num(SubSeq(z, 5, 6)))

\* where the offset starts in the time part: its first sign character
SignPositions(ts) == {i \in 1..Len(ts) : ts[i] \in {"+", "-"}}

FirstSign(ts) == CHOOSE i \in SignPositions(ts) : \A j \in SignPositions(ts) : i <= j

fromisoformat(s, lenient) ==
    IF Len(s) < 10 \/ ~DateOk(SubSeq(s, 1, 10)) THEN IsoFail
    ELSE
    LET y  == Num(SubSeq(s, 1, 4))
        mo == Num(SubSeq(s, 6, 7))
        d  == Num(SubSeq(s, 9, 10))
    IN
    IF Len(s) = 10 THEN [ok |-> TRUE, dt |-> DateTime(y, mo, d, 0, 0, 0, 0, FALSE, 0)]
    ELSE
    LET ts    == Drop(s, 11)
        hasTz == SignPositions(ts) # {}
        cut   == IF hasTz THEN FirstSign(ts) - 1 ELSE Len(ts)
        clock == Take(ts, cut)
        zone  == Drop(ts, cut)
    IN
    IF ~ClockOk(clock, lenient) \/ (hasTz /\ ~ZoneOk(zone)) THEN IsoFail
    ELSE [ok |-> TRUE,
          dt |-> DateTime(y, mo, d,
                          ClockField(clock, 1), ClockField(clock, 4),
                          ClockField(clock, 7),
                          IF Len(clock) > 9 THEN Micro(Drop(clock, 9)) ELSE 0,
                          hasTz,
                          IF hasTz THEN ZoneMinutes(zone) ELSE 0)]

-----------------------------------------------------------------------------
(* parse_iso_datetime *)

\* date_string[:-1] + '+00:00' when the string ends with 'Z'
ReplaceZ(s) ==
    IF EndsWith(s, "Z")
    THEN SubSeq(s, 1, Len(s) - 1) \o <<"+", "0", "0", ":", "0", "0">>
    ELSE s

\* the end of the digit run that starts right after position p
RECURSIVE DigitRunEnd(_, _)
DigitRunEnd(s, p) ==
    IF p < Len(s) /\ s[p + 1] \in Digit THEN DigitRunEnd(s, p + 1) ELSE p

\* re.match(r'^(.+\.\d+)([+-].+)$'): the positions of a '.' at which the
\* pattern matches (something before it, digits after it, then a sign and
\* at least one more character)
DotMatches(s) ==
    {p \in 2..Len(s) :
        /\ s[p] = "."
        /\ DigitRunEnd(s, p) > p
        /\ DigitRunEnd(s, p) + 2 <= Len(s)
        /\ s[DigitRunEnd(s, p) + 1] \in {"+", "-"}}

\* the greedy '.+' settles on the last such '.'
LastDot(s) == CHOOSE p \in DotMatches(s) : \A q \in DotMatches(s) : q <= p

\* Variant: the fraction is zero-filled but never cut.
PadFracNoCut(frac) == LJust(frac, 6, "0")

\* frac[:6].ljust(6, '0')
PadFrac(frac) == LJust(Take(frac, 6), 6, "0")

NormalizeFraction(s) ==
    IF DotMatches(s) = {} THEN s
    ELSE LET p       == LastDot(s)
             j       == DigitRunEnd(s, p)
             base    == SubSeq(s, 1, p - 1)
             frac    == SubSeq(s, p + 1, j)
             tz_part == Drop(s, j)
         IN  base \o <<".">> \o PadFrac(frac) \o tz_part

\* Variant: a timestamp parsed without an offset is taken to be UTC.
parse_iso_datetime_assume_utc(s, lenient) ==
    LET r == fromisoformat(NormalizeFraction(ReplaceZ(s)), lenient)
    IN  IF r.ok THEN [r EXCEPT !.dt.aware = TRUE] ELSE r

parse_iso_datetime(s, lenient) == fromisoformat(NormalizeFraction(ReplaceZ(s)), lenient)

-----------------------------------------------------------------------------
(* Invocation state shared by all four functions *)

\* message is str(e) of the exception the POST or response.json() raises
NoResponse == [kind |-> "none", status |-> 0, message |-> <<>>, body |-> PyNone]

NoOutcome == [value |-> PyNone, exc |-> "", exit_code |-> -1]

Returned(v) == [value |-> v, exc |-> "", exit_code |-> -1]

Raised(e) == [value |-> PyNone, exc |-> e, exit_code |-> -1]

\* sys.exit(1)
Exited == [value |-> PyNone, exc |-> "", exit_code |-> 1]

-----------------------------------------------------------------------------
(* Dictionaries, text and exceptions *)

\* dict.get(k, default)
Get(d, k, default) == IF k \in DOMAIN d.v THEN d.v[k] ELSE default

\* the dict holding the keys ks of the record full
Pick(full, ks) == PyDict([k \in ks |-> full[k]])

\* Text that the code does not look into is a sequence of pieces; '' is <<>>.
RECURSIVE Decimal(_)
Decimal(n) == IF n < 10 THEN <<DigitChars[n + 1]>>
              ELSE Append(Decimal(n \div 10), DigitChars[(n % 10) + 1])

\* Python's truth value, as tested by `if x`
Truthy(x) ==
    CASE x.t = "None" -> FALSE
      [] x.t = "bool" -> x.v
      [] x.t \in {"int", "float"} -> x.v # 0
      [] x.t \in {"str", "list"} -> Len(x.v) > 0
      [] x.t = "dict" -> DOMAIN x.v # {}
      [] OTHER -> TRUE

\* a body that is not JSON: response.json() raises JSONDecodeError
NotJson == [t |-> "not-json"]

\* requests.exceptions.JSONDecodeError derives from RequestException and from
\* json.JSONDecodeError, which is a ValueError
IsValueError(e) == e \in {"ValueError", "JSONDecodeError"}

IsRequestException(e) == e \in {"RequestException", "JSONDecodeError"}

\* the result of evaluating an expression: a value, or the exception raised
Ok(x) == [exc |-> "", v |-> x]

Err(e) == [exc |-> e, v |-> PyNone]

-----------------------------------------------------------------------------
(* Timestamps handed to parse_iso_datetime: a date and clock, a run of      *)
(* fractional digits (none when empty) and a suffix.                        *)

SampleDates ==
    { [year |-> 2024, month |-> 1,  day |-> 15, hour |-> 10, minute |-> 30, second |-> 0],
      [year |-> 2023, month |-> 12, day |-> 31, hour |-> 23, minute |-> 59, second |-> 59],
      [year |-> 2024, month |-> 2,  day |-> 29, hour |-> 0,  minute |-> 0,  second |-> 7],
      [year |-> 2024, month |-> 13, day |-> 15, hour |-> 10, minute |-> 30, second |-> 0],
      [year |-> 2023, month |-> 2,  day |-> 29, hour |-> 10, minute |-> 30, second |-> 0] }

FracPatterns ==
    { <<"1", "2", "3", "4", "5", "6", "7", "8", "9", "1", "2", "3">>,
      <<"5", "0", "0", "0", "0", "0", "0", "0", "0", "0", "0", "0">>,
      <<"0", "0", "0", "0", "0", "9", "9", "9", "9", "9", "9", "9">>,
      <<"9", "9", "9", "9", "9", "9", "9", "9", "9", "9", "9", "9">> }

FracRuns == {<<>>} \cup {Take(f, n) : f \in FracPatterns, n \in 1..MaxFracLen}

Suffix(k, sg, h, m) == [kind |-> k, sign |-> sg, hh |-> h, mm |-> m]

SampleSuffixes ==
    { Suffix("Z", 1, 0, 0),
      Suffix("offset", 1, 2, 0),
      Suffix("offset", -1, 5, 30),
      Suffix("offset", 1, 0, 0),
      Suffix("offset", 1, 25, 0),
      Suffix("none", 1, 0, 0),
      Suffix("junk", 1, 0, 0) }

RenderSuffix(x) ==
    CASE x.kind = "Z" -> <<"Z">>
      [] x.kind = "offset" ->
            <<IF x.sign < 0 THEN "-" ELSE "+">> \o Fmt(x.hh, 2) \o <<":">> \o Fmt(x.mm, 2)
      [] x.kind = "none" -> <<>>
      [] x.kind = "junk" -> <<"X">>

Render(i) ==
    Fmt(i.date.year, 4) \o <<"-">> \o Fmt(i.date.month, 2) \o <<"-">> \o Fmt(i.date.day, 2)
      \o <<"T">>
      \o Fmt(i.date.hour, 2) \o <<":">> \o Fmt(i.date.minute, 2) \o <<":">> \o Fmt(i.date.second, 2)
      \o (IF Len(i.frac) > 0 THEN <<".">> \o i.frac ELSE <<>>)
      \o RenderSuffix(i.suffix)

Timestamps == [date : SampleDates, frac : FracRuns, suffix : SampleSuffixes]

NoInput == [date |-> [year |-> 1, month |-> 1, day |-> 1, hour |-> 0, minute |-> 0, second |-> 0],
            frac |-> <<>>, suffix |-> Suffix("none", 1, 0, 0)]

-----------------------------------------------------------------------------
(* Specification of the normalizer alone: the argument is drawn in the      *)
(* initial state and the one action applies parse_iso_datetime to it.       *)

InitNormalizer ==
    /\ fn = "parse_iso_datetime"
    /\ pc = "called"
    /\ posts = 0
    /\ response = NoResponse
    /\ outcome = NoOutcome
    /\ inp \in Timestamps
    /\ date_string = Render(inp)
    /\ any_frac \in BOOLEAN

ParseIsoDatetime ==
    /\ fn = "parse_iso_datetime"
    /\ pc = "called"
    /\ LET r == parse_iso_datetime(date_string, any_frac)
       IN  IF r.ok
           THEN pc' = "returned" /\ outcome' = Returned(r.dt)
           ELSE pc' = "raised" /\ outcome' = Raised("ValueError")
    /\ UNCHANGED <<fn, posts, response, inp, date_string, any_frac>>

NextNormalizer == ParseIsoDatetime

SpecNormalizer == InitNormalizer /\ [][NextNormalizer]_vars

-----------------------------------------------------------------------------
(* What a reference reading of the parts gives *)

ValidDate(d) == d.year >= 1 /\ d.month \in 1..12 /\ d.day \in 1..DaysInMonth(d.year, d.month)

ValidOffset(x) == x.kind = "offset" /\ x.hh * 60 + x.mm < 1440

\* the first six digits of the run, as millionths
RECURSIVE RefMicro(_, _)
RefMicro(frac, weight) ==
    IF Len(frac) = 0 \/ weight = 0 THEN 0
    ELSE DigitVal(frac[1]) * weight + RefMicro(Drop(frac, 1), weight \div 10)

RefOffset(x) == IF x.kind = "offset" THEN x.sign * (x.hh * 60 + x.mm) ELSE 0

Reference(i) ==
    DateTime(i.date.year, i.date.month, i.date.day, i.date.hour, i.date.minute,
             i.date.second, RefMicro(i.frac, 100000),
             i.suffix.kind \in {"Z", "offset"}, RefOffset(i.suffix))

ParseDone == fn = "parse_iso_datetime" /\ pc \in {"returned", "raised"}

\* C1: a valid date-time with a fractional run of one digit or more that ends
\* in "Z" or a signed offset parses to an offset-carrying timestamp at the
\* instant the reference reading gives: "Z" as +00:00, the fraction cut to
\* six digits or zero-filled to six.
C1_NormalizerMatchesReference ==
    (/\ ParseDone
     /\ ValidDate(inp.date)
     /\ Len(inp.frac) >= 1
     /\ (inp.suffix.kind = "Z" \/ ValidOffset(inp.suffix)))
    => /\ pc = "returned"
       /\ outcome.value.aware
       /\ Instant(outcome.value) = Instant(Reference(inp))

C1_Witness ==
    /\ ParseDone /\ pc = "returned"
    /\ ValidDate(inp.date)
    /\ Len(inp.frac) > 6
    /\ inp.suffix.kind = "Z"
    /\ outcome.value.microsecond = 123456

\* C9 as stated: whatever parse_iso_datetime returns carries a UTC offset.
C9_AsClaimed ==
    (ParseDone /\ pc = "returned") => outcome.value.aware

WellFormed(i) ==
    /\ ValidDate(i.date)
    /\ i.suffix.kind \in {"Z", "none"} \/ ValidOffset(i.suffix)

\* C9 amended: parse_iso_datetime raises ValueError for every input that is
\* not a syntactically valid date-time after normalization (bad calendar
\* date, junk suffix, offset out of range); a valid date-time with no "Z" and
\* no offset, with a fractional run of 0, 3 or 6 digits, is returned as an
\* offset-less timestamp.
C9_RejectsOnlyMalformed ==
    /\ (ParseDone /\ ~WellFormed(inp))
         => (pc = "raised" /\ outcome.exc = "ValueError")
    /\ (ParseDone /\ ValidDate(inp.date) /\ inp.suffix.kind = "none"
          /\ Len(inp.frac) \in {0, 3, 6})
         => (pc = "returned" /\ outcome.value = Reference(inp) /\ ~outcome.value.aware)

C9_Witness ==
    /\ ParseDone /\ pc = "returned"
    /\ inp.suffix.kind = "none"
    /\ Len(inp.frac) = 0
    /\ ~outcome.value.aware

-----------------------------------------------------------------------------
(* The result types of models/submission_dtos.py *)

SubmissionChat(pcount, ccount, clength, start, ended) ==
    [t |-> "SubmissionChat", participant_count |-> pcount, chat_count |-> ccount,
     chat_length |-> clength, chat_start_on |-> start, chat_ended_on |-> ended]

ChatHistory(id, chats) ==
    [t |-> "ChatHistory", source_chat_id |-> id, chat_list |-> chats]

SubmissionHistory(valid, text, last, histories) ==
    [t |-> "SubmissionHistory", is_valid |-> valid, error_text |-> text,
     last_submission |-> last, chat_histories |-> histories]

SubmitDataResponse(valid, text) ==
    [t |-> "SubmitDataResponse", is_valid |-> valid, error_text |-> text]

ChatEvaluationSummary(id, count, quality, uniqueness) ==
    [t |-> "ChatEvaluationSummary", source_chat_id |-> id, message_count |-> count,
     chat_quality |-> quality, chat_uniqueness |-> uniqueness]

EvaluationDetails(total, unique, reasoning, summaries) ==
    [t |-> "EvaluationDetails", total_messages |-> total, unique_messages |-> unique,
     llm_reasoning |-> reasoning, chat_summaries |-> summaries]

EvaluateSubmissionResponse(valid, text, q, u, s, det) ==
    [t |-> "EvaluateSubmissionResponse", is_valid |-> valid, error_text |-> text,
     quality |-> q, uniqueness |-> u, score |-> s, details |-> det]

-----------------------------------------------------------------------------
(* get_submission_historical_data: decoding the body of a 200 response *)

\* one SubmissionChat(...) of the list comprehension; chat["chatStartOn"] and
\* chat["chatEndedOn"] are subscripted, the counts are fetched with defaults
DecodeChat(chat, lenient) ==
    IF "chatStartOn" \notin DOMAIN chat.v THEN Err("KeyError")
    ELSE LET start == parse_iso_datetime(chat.v["chatStartOn"].v, lenient)
         IN  IF ~start.ok THEN Err("ValueError")
             ELSE IF "chatEndedOn" \notin DOMAIN chat.v THEN Err("KeyError")
             ELSE LET ended == parse_iso_datetime(chat.v["chatEndedOn"].v, lenient)
                  IN  IF ~ended.ok THEN Err("ValueError")
                      ELSE Ok(SubmissionChat(Get(chat, "participantCount", PyInt(0)),
                                             Get(chat, "chatCount", PyInt(0)),
                                             Get(chat, "chatLength", PyInt(0)),
                                             start.dt, ended.dt))

\* extending a list by one decoded element: the first exception raised ends
\* the loop
Then(first, rest) ==
    IF first.exc # "" THEN first
    ELSE IF rest.exc # "" THEN rest
    ELSE Ok(<<first.v>> \o rest.v)

RECURSIVE DecodeChats(_, _)
DecodeChats(chats, lenient) ==
    IF Len(chats) = 0 THEN Ok(<<>>)
    ELSE Then(DecodeChat(Head(chats), lenient), DecodeChats(Tail(chats), lenient))

\* one pass of the loop over chatHistories
DecodeChatHistory(group, lenient) ==
    LET chat_list == DecodeChats(Get(group, "chats", PyList(<<>>)).v, lenient)
    IN  IF chat_list.exc # "" THEN chat_list
        ELSE Ok(ChatHistory(Get(group, "sourceChatId", PyInt(0)), PyList(chat_list.v)))

RECURSIVE DecodeChatHistories(_, _)
DecodeChatHistories(groups, lenient) ==
    IF Len(groups) = 0 THEN Ok(<<>>)
    ELSE Then(DecodeChatHistory(Head(groups), lenient),
              DecodeChatHistories(Tail(groups), lenient))

\* Variant: the parse of lastSubmission has no try/except of its own.
DecodeLastSubmissionUnguarded(result_json, lenient) ==
    LET last_submission_val == Get(result_json, "lastSubmission", PyNone)
    IN  IF Truthy(last_submission_val)
        THEN LET r == parse_iso_datetime(last_submission_val.v, lenient)
             IN  IF r.ok THEN Ok(r.dt) ELSE Err("ValueError")
        ELSE Ok(PyNone)

\* the lastSubmission field: parsed when truthy, None when falsy; the
\* ValueError of a failed parse is caught on the spot and gives None
DecodeLastSubmission(result_json, lenient) ==
    LET last_submission_val == Get(result_json, "lastSubmission", PyNone)
    IN  IF Truthy(last_submission_val)
        THEN LET r == parse_iso_datetime(last_submission_val.v, lenient)
             IN  IF r.ok THEN Ok(r.dt) ELSE Ok(PyNone)
        ELSE Ok(PyNone)

\* the statements of the inner try block after response.json(), in order
DecodeSubmissionHistory(result_json, lenient) ==
    LET chat_histories ==
            DecodeChatHistories(Get(result_json, "chatHistories", PyList(<<>>)).v, lenient)
        last_submission == DecodeLastSubmission(result_json, lenient)
    IN  IF chat_histories.exc # "" THEN chat_histories
        ELSE IF last_submission.exc # "" THEN last_submission
        ELSE Ok(SubmissionHistory(Get(result_json, "isValid", PyBool(FALSE)),
                                  Get(result_json, "errorText", PyStr(<<>>)),
                                  last_submission.v,
                                  PyList(chat_histories.v)))

\* response.json()
Json(resp) == IF resp.body.t = "not-json" THEN Err("JSONDecodeError") ELSE Ok(resp.body)

\* Variant: no `except ValueError` around the decoding.
HistoricalDataOn200Uncaught(resp, lenient) ==
    LET result_json == Json(resp)
    IN  IF result_json.exc # "" THEN result_json
        ELSE DecodeSubmissionHistory(result_json.v, lenient)

\* the try block from the status test on; `except ValueError` ends in sys.exit(1)
HistoricalDataOn200(resp, lenient) ==
    LET result_json == Json(resp)
        r == IF result_json.exc # "" THEN result_json
             ELSE DecodeSubmissionHistory(result_json.v, lenient)
    IN  IF IsValueError(r.exc) THEN Err("SystemExit") ELSE r

\* the whole function once requests.post has returned or raised
HistoricalDataResult(resp, lenient) ==
    LET r == IF resp.kind = "error" THEN Err("RequestException")
             ELSE IF resp.status = 200 THEN HistoricalDataOn200(resp, lenient)
             ELSE Err("SystemExit")
    IN  IF IsRequestException(r.exc) THEN Err("SystemExit") ELSE r

-----------------------------------------------------------------------------
(* evaluate_submission *)

DecodeSummary(summary_json) ==
    ChatEvaluationSummary(Get(summary_json, "sourceChatId", PyStr(<<>>)),
                          Get(summary_json, "messageCount", PyInt(0)),
                          Get(summary_json, "chatQuality", PyFloat(0)),
                          Get(summary_json, "chatUniqueness", PyFloat(0)))

\* `if details_json:` and the block under it
DecodeDetails(result_json) ==
    LET details_json == Get(result_json, "details", PyNone)
    IN  IF Truthy(details_json)
        THEN LET summaries == Get(details_json, "chatSummaries", PyList(<<>>)).v
             IN  EvaluationDetails(
                     Get(details_json, "totalMessages", PyInt(0)),
                     Get(details_json, "uniqueMessages", PyInt(0)),
                     Get(details_json, "llmReasoning", PyNone),
                     PyList([i \in 1..Len(summaries) |-> DecodeSummary(summaries[i])]))
        ELSE PyNone

\* Variant: a response that says isValid = false has its scores and details
\* dropped.
DecodeEvaluationZeroed(result_json) ==
    IF Truthy(Get(result_json, "isValid", PyBool(FALSE)))
    THEN EvaluateSubmissionResponse(Get(result_json, "isValid", PyBool(FALSE)),
                                    Get(result_json, "errorText", PyStr(<<>>)),
                                    Get(result_json, "quality", PyFloat(0)),
                                    Get(result_json, "uniqueness", PyFloat(0)),
                                    Get(result_json, "score", PyFloat(0)),
                                    DecodeDetails(result_json))
    ELSE EvaluateSubmissionResponse(Get(result_json, "isValid", PyBool(FALSE)),
                                    Get(result_json, "errorText", PyStr(<<>>)),
                                    PyFloat(0), PyFloat(0), PyFloat(0), PyNone)

DecodeEvaluation(result_json) ==
    EvaluateSubmissionResponse(Get(result_json, "isValid", PyBool(FALSE)),
                               Get(result_json, "errorText", PyStr(<<>>)),
                               Get(result_json, "quality", PyFloat(0)),
                               Get(result_json, "uniqueness", PyFloat(0)),
                               Get(result_json, "score", PyFloat(0)),
                               DecodeDetails(result_json))

\* the result built on a failure: is_valid=False, the scores 0.0, details left
\* at the dataclass default None
EvaluationFailure(text) ==
    EvaluateSubmissionResponse(PyBool(FALSE), PyStr(text), PyFloat(0), PyFloat(0),
                               PyFloat(0), PyNone)

StatusText(status) == <<"Evaluate request failed with status ">> \o Decimal(status)

\* Variant: failures are fatal, as in the other two flows.
EvaluationResultFatal(resp) ==
    LET r == IF resp.kind = "error" THEN Err("RequestException")
             ELSE IF resp.status = 200
                  THEN LET result_json == Json(resp)
                       IN  IF result_json.exc # "" THEN result_json
                           ELSE Ok(DecodeEvaluation(result_json.v))
                  ELSE Err("SystemExit")
    IN  IF IsRequestException(r.exc) THEN Err("SystemExit") ELSE r

\* the whole function once requests.post has returned or raised
EvaluationResult(resp) ==
    LET r == IF resp.kind = "error" THEN Err("RequestException")
             ELSE IF resp.status = 200
                  THEN LET result_json == Json(resp)
                       IN  IF result_json.exc # "" THEN result_json
                           ELSE Ok(DecodeEvaluation(result_json.v))
                  ELSE Ok(EvaluationFailure(StatusText(resp.status)))
    IN  IF IsRequestException(r.exc) THEN Ok(EvaluationFailure(resp.message)) ELSE r

-----------------------------------------------------------------------------
(* submit_data *)

DecodeSubmitData(result_json) ==
    SubmitDataResponse(Get(result_json, "isValid", PyBool(FALSE)),
                       Get(result_json, "errorText", PyStr(<<>>)))

\* Variant: failures are returned as a rejected result, as in evaluate_submission.
SubmitDataResultReturned(resp) ==
    LET r == IF resp.kind = "error" THEN Err("RequestException")
             ELSE IF resp.status = 200
                  THEN LET result_json == Json(resp)
                       IN  IF result_json.exc # "" THEN result_json
                           ELSE Ok(DecodeSubmitData(result_json.v))
                  ELSE Ok(SubmitDataResponse(PyBool(FALSE), PyStr(Decimal(resp.status))))
    IN  IF IsRequestException(r.exc)
        THEN Ok(SubmitDataResponse(PyBool(FALSE), PyStr(resp.message)))
        ELSE r

SubmitDataResult(resp) ==
    LET r == IF resp.kind = "error" THEN Err("RequestException")
             ELSE IF resp.status = 200
                  THEN LET result_json == Json(resp)
                       IN  IF result_json.exc # "" THEN result_json
                           ELSE Ok(DecodeSubmitData(result_json.v))
                  ELSE Err("SystemExit")
    IN  IF IsRequestException(r.exc) THEN Err("SystemExit") ELSE r

-----------------------------------------------------------------------------
(* What the backend may answer *)

\* a field left out of a body
Missing == [t |-> "missing"]

\* the JSON object with the fields of full that are not left out
Body(full) == Pick(full, {k \in DOMAIN full : full[k].t # "missing"})

TsUtc ==
    Render([date |-> [year |-> 2024, month |-> 1, day |-> 15, hour |-> 10, minute |-> 30, second |-> 0],
            frac |-> <<"1", "2", "3", "4", "5", "6", "7", "8", "9">>,
            suffix |-> Suffix("Z", 1, 0, 0)])

TsOffset ==
    Render([date |-> [year |-> 2023, month |-> 12, day |-> 31, hour |-> 23, minute |-> 59, second |-> 59],
            frac |-> <<"5">>,
            suffix |-> Suffix("offset", 1, 2, 0)])

\* a string the normalizer rejects
TsBad ==
    Render([date |-> [year |-> 2024, month |-> 13, day |-> 15, hour |-> 10, minute |-> 30, second |-> 0],
            frac |-> <<>>,
            suffix |-> Suffix("Z", 1, 0, 0)])

FullChat ==
    [participantCount |-> PyInt(2), chatCount |-> PyInt(5), chatLength |-> PyInt(40),
     chatStartOn |-> PyStr(TsUtc), chatEndedOn |-> PyStr(TsOffset)]

GoodChat == Body(FullChat)

ChatPatterns ==
    LET noCounts == Body([FullChat EXCEPT !.participantCount = Missing,
                                          !.chatCount = Missing, !.chatLength = Missing])
        noLength == Body([FullChat EXCEPT !.chatLength = Missing])
        noStart  == Body([FullChat EXCEPT !.chatStartOn = Missing])
        noEnd    == Body([FullChat EXCEPT !.chatEndedOn = Missing])
        badStart == Body([FullChat EXCEPT !.chatStartOn = PyStr(TsBad)])
        badEnd   == Body([FullChat EXCEPT !.chatEndedOn = PyStr(TsBad)])
    IN  { <<GoodChat, noCounts, GoodChat>>,
          <<noCounts, noLength, GoodChat>>,
          <<noStart, GoodChat, GoodChat>>,
          <<GoodChat, noEnd, GoodChat>>,
          <<badStart, noStart, GoodChat>>,
          <<GoodChat, badEnd, GoodChat>>,
          <<noEnd, badStart, GoodChat>> }

ChatLists == {Take(p, n) : p \in ChatPatterns, n \in 0..MaxList}

SampleGroups ==
    {Body([sourceChatId |-> id, chats |-> PyList(c)]) : id \in {Missing, PyInt(7)}, c \in ChatLists}
      \cup {Body([sourceChatId |-> id, chats |-> Missing]) : id \in {Missing, PyInt(7)}}

GoodGroup == Body([sourceChatId |-> PyInt(7), chats |-> PyList(<<GoodChat>>)])

HistoryLists ==
    {Take(<<g, GoodGroup, g>>, n) : g \in SampleGroups, n \in 0..MaxList}
      \cup {Take(<<GoodGroup, g, GoodGroup>>, n) : g \in SampleGroups, n \in 0..MaxList}

HistoricalDataBodies ==
    {Body([isValid |-> iv, errorText |-> et, lastSubmission |-> ls, chatHistories |-> ch]) :
        iv \in {Missing, PyBool(TRUE), PyBool(FALSE)},
        et \in {Missing, PyStr(<<"rejected">>)},
        ls \in {Missing, PyNone, PyStr(<<>>), PyStr(TsUtc), PyStr(TsOffset), PyStr(TsBad)},
        ch \in {Missing} \cup {PyList(h) : h \in HistoryLists}}

FullSummary ==
    [sourceChatId |-> PyStr(<<"chat-1">>), messageCount |-> PyInt(6),
     chatQuality |-> PyFloat(7), chatUniqueness |-> PyFloat(3)]

SummaryPatterns ==
    LET full    == Body(FullSummary)
        partial == Body([FullSummary EXCEPT !.messageCount = Missing, !.chatQuality = Missing])
        empty   == Body([FullSummary EXCEPT !.sourceChatId = Missing, !.messageCount = Missing,
                                            !.chatQuality = Missing, !.chatUniqueness = Missing])
    IN  { <<full, empty, partial>>, <<empty, full, full>>, <<partial, full, empty>> }

SummaryLists == {Take(p, n) : p \in SummaryPatterns, n \in 0..MaxList}

SampleDetails ==
    {Missing, PyNone}
      \cup {Body([totalMessages |-> c[1], uniqueMessages |-> c[2], llmReasoning |-> why,
                  chatSummaries |-> cs]) :
              c \in {<<Missing, Missing>>, <<PyInt(12), PyInt(9)>>},
              why \in {Missing, PyStr(<<"mostly original">>)},
              cs \in {Missing} \cup {PyList(s) : s \in SummaryLists}}

EvaluationBodies ==
    {Body([isValid |-> iv, errorText |-> et, quality |-> sc[1], uniqueness |-> sc[2],
           score |-> sc[3], details |-> det]) :
        iv \in {Missing, PyBool(TRUE), PyBool(FALSE)},
        et \in {Missing, PyStr(<<"rejected">>)},
        sc \in {<<Missing, Missing, Missing>>, <<PyFloat(8), Missing, Missing>>,
                <<PyFloat(8), PyFloat(5), PyFloat(4)>>},
        det \in SampleDetails}

SubmitDataBodies ==
    {Body([isValid |-> iv, errorText |-> et]) :
        iv \in {Missing, PyBool(TRUE), PyBool(FALSE)},
        et \in {Missing, PyStr(<<>>), PyStr(<<"rejected">>)}}

Flows == {"get_submission_historical_data", "evaluate_submission", "submit_data"}

Bodies(f) ==
    CASE f = "get_submission_historical_data" -> HistoricalDataBodies
      [] f = "evaluate_submission" -> EvaluationBodies
      [] f = "submit_data" -> SubmitDataBodies

\* requests raises its exceptions with the underlying error as the message
TransportErrors ==
    {[kind |-> "error", status |-> 0, message |-> <<m>>, body |-> PyNone] :
        m \in {"Connection refused", "Read timed out"}}

HttpResponse(s, b) ==
    [kind |-> "http", status |-> s,
     message |-> IF b.t = "not-json" THEN <<"Expecting value: line 1 column 1 (char 0)">> ELSE <<>>,
     body |-> b]

Responses(f) ==
    TransportErrors
      \cup {HttpResponse(s, b) : s \in {400, 500},
                                 b \in {NotJson, Body([isValid |-> PyBool(TRUE), errorText |-> Missing])}}
      \cup {HttpResponse(200, b) : b \in {NotJson} \cup Bodies(f)}

-----------------------------------------------------------------------------
(* The three flows: the function issues its POST and blocks, the transport  *)
(* delivers a response or an error, and the function runs to its end.       *)

Init ==
    /\ fn = "none"
    /\ pc = "idle"
    /\ posts = 0
    /\ response = NoResponse
    /\ outcome = NoOutcome
    /\ inp = NoInput
    /\ date_string = <<>>
    /\ any_frac \in BOOLEAN

\* the function up to and including requests.post(url, json=payload, headers=headers)
Invoke(f) ==
    /\ pc = "idle"
    /\ fn' = f
    /\ pc' = "blocked"
    /\ posts' = posts + 1
    /\ UNCHANGED <<response, outcome, inp, date_string, any_frac>>

\* the backend's answer, or the transport's failure, arrives
Deliver ==
    /\ pc = "blocked"
    /\ \E r \in Responses(fn) : response' = r
    /\ pc' = "responded"
    /\ UNCHANGED <<fn, posts, outcome, inp, date_string, any_frac>>

\* how a function ends: a return, sys.exit(1), or an exception left to the caller
Finish(r) ==
    /\ pc' = (IF r.exc = "" THEN "returned"
              ELSE IF r.exc = "SystemExit" THEN "exited" ELSE "raised")
    /\ outcome' = (IF r.exc = "" THEN Returned(r.v)
                   ELSE IF r.exc = "SystemExit" THEN Exited ELSE Raised(r.exc))
    /\ UNCHANGED <<fn, posts, response, inp, date_string, any_frac>>

get_submission_historical_data ==
    /\ fn = "get_submission_historical_data"
    /\ pc = "responded"
    /\ Finish(HistoricalDataResult(response, any_frac))

\* Variant: a failed request is sent once more.
evaluate_submission_retry ==
    /\ fn = "evaluate_submission"
    /\ pc = "responded"
    /\ IF posts < 2 /\ (response.kind = "error" \/ response.status # 200)
       THEN /\ posts' = posts + 1
            /\ pc' = "blocked"
            /\ response' = NoResponse
            /\ UNCHANGED <<fn, outcome, inp, date_string, any_frac>>
       ELSE Finish(EvaluationResult(response))

evaluate_submission ==
    /\ fn = "evaluate_submission"
    /\ pc = "responded"
    /\ Finish(EvaluationResult(response))

submit_data ==
    /\ fn = "submit_data"
    /\ pc = "responded"
    /\ Finish(SubmitDataResult(response))

\* the caller goes on to its next call
Resume ==
    /\ pc = "returned"
    /\ fn' = "none"
    /\ pc' = "idle"
    /\ posts' = 0
    /\ response' = NoResponse
    /\ outcome' = NoOutcome
    /\ UNCHANGED <<inp, date_string, any_frac>>

Next ==
    \/ Invoke("get_submission_historical_data")
    \/ Invoke("evaluate_submission")
    \/ Invoke("submit_data")
    \/ Deliver
    \/ get_submission_historical_data
    \/ evaluate_submission
    \/ submit_data
    \/ Resume

Spec == Init /\ [][Next]_vars

-----------------------------------------------------------------------------
(* Reading a response without the decoders *)

FlowDone == fn \in Flows /\ pc \in {"returned", "exited", "raised"}

Got200 == response.kind = "http" /\ response.status = 200

GotFailure == response.kind = "error" \/ (response.kind = "http" /\ response.status # 200)

GotObject == Got200 /\ response.body.t = "dict"

Field(d, k) == IF k \in DOMAIN d.v THEN d.v[k] ELSE Missing

ListField(d, k) == IF Field(d, k).t = "list" THEN Field(d, k).v ELSE <<>>

\* every chat of a historical-data body, in the order of the body
RECURSIVE ChatsIn(_)
ChatsIn(groups) ==
    IF Len(groups) = 0 THEN <<>>
    ELSE ListField(Head(groups), "chats") \o ChatsIn(Tail(groups))

AllChats(body) == ChatsIn(ListField(body, "chatHistories"))

Rejected(x) == x.t = "str" /\ x.v = TsBad

\* what is wrong with a chat's timestamps, chatStartOn read first
Defect(chat) ==
    IF Field(chat, "chatStartOn").t = "missing" THEN "missing"
    ELSE IF Rejected(Field(chat, "chatStartOn")) THEN "rejected"
    ELSE IF Field(chat, "chatEndedOn").t = "missing" THEN "missing"
    ELSE IF Rejected(Field(chat, "chatEndedOn")) THEN "rejected"
    ELSE "none"

RECURSIVE FirstDefect(_)
FirstDefect(chats) ==
    IF Len(chats) = 0 THEN "none"
    ELSE IF Defect(Head(chats)) # "none" THEN Defect(Head(chats))
    ELSE FirstDefect(Tail(chats))

\* the body with field k set to x
WithField(body, k, x) ==
    PyDict([f \in DOMAIN body.v \cup {k} |-> IF f = k THEN x ELSE body.v[f]])

\* what the invoked function makes of a 200 response carrying body b
ResultOn(f, b, lenient) ==
    CASE f = "get_submission_historical_data" ->
             HistoricalDataResult(HttpResponse(200, b), lenient)
      [] f = "evaluate_submission" -> EvaluationResult(HttpResponse(200, b))
      [] f = "submit_data" -> SubmitDataResult(HttpResponse(200, b))

-----------------------------------------------------------------------------
(* Claims about the flows *)

\* C2: on a non-200 response or a transport failure evaluate_submission
\* returns a result with is_valid false, the three scores 0.0, no details and
\* a non-empty error text: the exception's message, or a text ending in the
\* status code.
C2_EvaluateFailureIsReturned ==
    (fn = "evaluate_submission" /\ FlowDone /\ GotFailure)
    => /\ pc = "returned"
       /\ outcome.value.t = "EvaluateSubmissionResponse"
       /\ outcome.value.is_valid = PyBool(FALSE)
       /\ outcome.value.quality = PyFloat(0)
       /\ outcome.value.uniqueness = PyFloat(0)
       /\ outcome.value.score = PyFloat(0)
       /\ outcome.value.details.t = "None"
       /\ Len(outcome.value.error_text.v) > 0
       /\ response.kind = "error" => outcome.value.error_text.v = response.message
       /\ response.kind = "http" =>
              Num(Drop(outcome.value.error_text.v, 1)) = response.status

C2_Witness ==
    /\ fn = "evaluate_submission" /\ pc = "returned"
    /\ response.kind = "http" /\ response.status = 500
    /\ outcome.value.is_valid = PyBool(FALSE)

\* C3: in get_submission_historical_data and submit_data a non-200 response
\* or a transport failure ends in sys.exit(1); nothing is returned.
C3_FailureIsFatal ==
    (fn \in {"get_submission_historical_data", "submit_data"} /\ FlowDone /\ GotFailure)
    => /\ pc = "exited"
       /\ outcome.exit_code = 1
       /\ outcome.value.t = "None"

C3_Witness ==
    /\ fn = "submit_data" /\ pc = "exited"
    /\ response.kind = "http" /\ response.status = 400
    /\ response.body.t = "dict"

\* C4 as stated: a 200 response whose body is a JSON object with no
\* malformed value in it is always decoded and returned, whatever fields are
\* missing, the missing ones at their defaults.
C4_AsClaimed ==
    (/\ FlowDone /\ GotObject
     /\ \A i \in 1..Len(AllChats(response.body)) :
            /\ ~Rejected(Field(AllChats(response.body)[i], "chatStartOn"))
            /\ ~Rejected(Field(AllChats(response.body)[i], "chatEndedOn")))
    => /\ pc = "returned"
       /\ Field(response.body, "isValid").t = "missing"
            => outcome.value.is_valid = PyBool(FALSE)
       /\ Field(response.body, "errorText").t = "missing"
            => outcome.value.error_text = PyStr(<<>>)

LastSubmissionUnusable(body) ==
    \/ Field(body, "lastSubmission").t \in {"missing", "None"}
    \/ /\ Field(body, "lastSubmission").t = "str"
       /\ Field(body, "lastSubmission").v \in {<<>>, TsBad}

\* C5: with a 200 response whose chats decode, a lastSubmission that is
\* missing, null, empty or rejected by the normalizer gives a returned
\* SubmissionHistory with last_submission None and with is_valid, error_text
\* and chat_histories as decoded from the same body with a well-formed
\* lastSubmission.
C5_BadLastSubmissionIsAbsent ==
    (/\ fn = "get_submission_historical_data" /\ FlowDone /\ GotObject
     /\ LastSubmissionUnusable(response.body)
     /\ FirstDefect(AllChats(response.body)) = "none")
    => LET good == ResultOn(fn, WithField(response.body, "lastSubmission", PyStr(TsUtc)),
                            any_frac)
       IN  /\ pc = "returned"
           /\ outcome.value.last_submission.t = "None"
           /\ good.exc = ""
           /\ good.v.last_submission.t = "datetime"
           /\ outcome.value = [good.v EXCEPT !.last_submission = PyNone]
           /\ outcome.value.is_valid \in {PyBool(TRUE), PyBool(FALSE)}
           /\ Field(response.body, "isValid").t = "bool"
                => outcome.value.is_valid = response.body.v["isValid"]

C5_Witness ==
    /\ fn = "get_submission_historical_data" /\ pc = "returned" /\ GotObject
    /\ Rejected(Field(response.body, "lastSubmission"))
    /\ Len(AllChats(response.body)) > 0
    /\ outcome.value.last_submission.t = "None"
    /\ Len(outcome.value.chat_histories.v) > 0

\* C6 as stated: the returned details are None exactly when the body has no
\* details object, and a details object gives one summary per element of its
\* chatSummaries.
C6_AsClaimed ==
    (fn = "evaluate_submission" /\ pc = "returned" /\ GotObject)
    => /\ outcome.value.details.t = "None" <=> Field(response.body, "details").t # "dict"
       /\ Field(response.body, "details").t = "dict" =>
              /\ outcome.value.details.t = "EvaluationDetails"
              /\ Len(outcome.value.details.chat_summaries.v)
                   = Len(ListField(Field(response.body, "details"), "chatSummaries"))

\* C7: in get_submission_historical_data and submit_data a 200 response whose
\* body is not JSON, or whose decoding comes upon a chatStartOn / chatEndedOn
\* string the normalizer rejects, ends in sys.exit(1): nothing is returned
\* and no exception reaches the caller.
C7_DecodeErrorIsFatal ==
    (/\ fn \in {"get_submission_historical_data", "submit_data"} /\ FlowDone /\ Got200
     /\ \/ response.body.t = "not-json"
        \/ /\ fn = "get_submission_historical_data"
           /\ response.body.t = "dict"
           /\ FirstDefect(AllChats(response.body)) = "rejected")
    => /\ pc = "exited"
       /\ outcome.exit_code = 1
       /\ outcome.value.t = "None"
       /\ outcome.exc = ""

C7_Witness ==
    /\ fn = "get_submission_historical_data" /\ pc = "exited" /\ GotObject
    /\ FirstDefect(AllChats(response.body)) = "rejected"
    /\ Field(response.body, "isValid") = PyBool(TRUE)

\* C8: a 200 response that decodes and says isValid = false is returned with
\* is_valid false and the body's errorText; every other field of the result
\* is what the same body with isValid = true gives.
C8_InvalidIsReturnedAsIs ==
    (/\ FlowDone /\ GotObject
     /\ Field(response.body, "isValid") = PyBool(FALSE)
     /\ FirstDefect(AllChats(response.body)) = "none")
    => LET valid == ResultOn(fn, WithField(response.body, "isValid", PyBool(TRUE)), any_frac)
       IN  /\ pc = "returned"
           /\ outcome.value.is_valid = PyBool(FALSE)
           /\ outcome.value.error_text =
                  (IF Field(response.body, "errorText").t = "missing" THEN PyStr(<<>>)
                   ELSE response.body.v["errorText"])
           /\ valid.exc = ""
           /\ valid.v.is_valid = PyBool(TRUE)
           /\ outcome.value = [valid.v EXCEPT !.is_valid = PyBool(FALSE)]
           /\ (fn = "evaluate_submission" /\ Field(response.body, "quality").t = "float")
                => outcome.value.quality = response.body.v["quality"]

C8_Witness ==
    /\ fn = "evaluate_submission" /\ pc = "returned" /\ GotObject
    /\ Field(response.body, "isValid") = PyBool(FALSE)
    /\ outcome.value.quality = PyFloat(8)
    /\ outcome.value.details.t = "EvaluationDetails"

Final == {"returned", "exited", "raised"}

\* C10: an invocation of a flow issues one POST and no second one, has no
\* outcome before the response or transport error has arrived, and once it
\* has returned, exited or raised its outcome does not change.
C10_OnePostOneOutcome ==
    /\ [](fn \in Flows =>
            /\ posts = 1
            /\ pc \in Final => response.kind # "none"
            /\ pc \in {"blocked", "responded"} => outcome = NoOutcome)
    /\ [][/\ posts' # posts => (pc = "idle" /\ posts' = 1) \/ pc' = "idle"
          /\ outcome' # outcome => (pc = "responded" /\ response.kind # "none") \/ pc' = "idle"
          /\ pc \in Final => (pc' = pc /\ outcome' = outcome /\ posts' = posts) \/ pc' = "idle"
         ]_vars

C10_Witness ==
    /\ fn = "evaluate_submission" /\ pc = "returned"
    /\ posts = 1
    /\ response.kind = "error"

=============================================================================
